---- MODULE Spec2Model ----
(***************************************************************************)
(* Floor-plan layout synthesis: the constructive placer of layout_gen.py,  *)
(* the simulated-annealing optimizer of layout_optimize.py and the driver  *)
(* of run_pipeline.py.                                                     *)
(*                                                                         *)
(* Lengths are fixed-point integers on a grid of 0.05 m (20 grid units per *)
(* metre): 0.5 m = 10, 0.2 m = 4, 0.8 m = 16.  Areas are in grid units     *)
(* squared (one unit = 2500e-6 m2).  Room sizes are even numbers of grid   *)
(* units, so every (ah - ch)/2 of the placer is exact.  Costs are in ticks *)
(* of 5e-4.  Strings are tuples of one-character strings.                  *)
(***************************************************************************)
EXTENDS Integers, Sequences, FiniteSets, TLC

\* Python's None.  An optional value is <<>> (None) or <<v>>; an optional string
\* is the string itself, None and "" both being <<>> (both are falsy, and the
\* code only tests them for truth).
None == <<>>
Some(v) == <<v>>

Range(s) == {s[i] : i \in 1..Len(s)}

RECURSIVE Flatten(_)
Flatten(ss) == IF ss = <<>> THEN <<>> ELSE Head(ss) \o Flatten(Tail(ss))

Max2(a, b) == IF a >= b THEN a ELSE b
Min2(a, b) == IF a <= b THEN a ELSE b
SetMax(S) == CHOOSE m \in S : \A n \in S : n <= m
SetMin(S) == CHOOSE m \in S : \A n \in S : m <= n

(***************************************************************************)
(* Strings: str.lower() and the substring test `t in s`.                   *)
(***************************************************************************)
UpperToLower ==
    ("A" :> "a") @@ ("B" :> "b") @@ ("C" :> "c") @@ ("D" :> "d") @@ ("E" :> "e") @@
    ("F" :> "f") @@ ("G" :> "g") @@ ("H" :> "h") @@ ("I" :> "i") @@ ("J" :> "j") @@
    ("K" :> "k") @@ ("L" :> "l") @@ ("M" :> "m") @@ ("N" :> "n") @@ ("O" :> "o") @@
    ("P" :> "p") @@ ("Q" :> "q") @@ ("R" :> "r") @@ ("S" :> "s") @@ ("T" :> "t") @@
    ("U" :> "u") @@ ("V" :> "v") @@ ("W" :> "w") @@ ("X" :> "x") @@ ("Y" :> "y") @@
    ("Z" :> "z")

lower(s) == [i \in 1..Len(s) |-> IF s[i] \in DOMAIN UpperToLower THEN UpperToLower[s[i]] ELSE s[i]]

IsSubstring(t, s) == \E i \in 0..(Len(s) - Len(t)) : SubSeq(s, i + 1, i + Len(t)) = t

\* Python truthiness of an optional number: None and 0 are falsy.
Truthy(o) == o # None /\ o[1] # 0

(***************************************************************************)
(* dict: insertion-ordered mapping, keys in first-insertion order.         *)
(***************************************************************************)
EmptyDict == [keys |-> <<>>, at |-> <<>>]
DictPut(d, k, v) ==
    IF k \in Range(d.keys)
    THEN [keys |-> d.keys, at |-> [d.at EXCEPT ![k] = v]]
    ELSE [keys |-> Append(d.keys, k), at |-> (k :> v) @@ d.at]
Has(d, k) == k \in Range(d.keys)
Values(d) == {d.at[k] : k \in Range(d.keys)}

(***************************************************************************)
(* Program constants.                                                      *)
(***************************************************************************)
SlideStep == 10          \* 0.5 m, the slide increment and the fallback gap
Margin == 4              \* 0.2 m
EpsMicro == 1            \* 1e-6 m2, in millionths of a square metre
MicroPerArea == 2500     \* one grid unit squared, in millionths of a square metre
SnapEvery == 200
MaxShift == 16           \* 0.8 m, the max_shift optimize_layout passes

\* DEFAULT_SIZES, keyed by the exact type string.
sLivingRoom == <<"L","i","v","i","n","g"," ","R","o","o","m">>
sKitchen == <<"K","i","t","c","h","e","n">>
sMasterBedroom == <<"M","a","s","t","e","r"," ","B","e","d","r","o","o","m">>
sKidsRoom == <<"K","i","d","s"," ","R","o","o","m">>
sGuestRoom == <<"G","u","e","s","t"," ","R","o","o","m">>
sBathroom == <<"B","a","t","h","r","o","o","m">>
sBalcony == <<"B","a","l","c","o","n","y">>
sLiving == <<"l","i","v","i","n","g">>

DEFAULT_SIZES ==
    (sLivingRoom :> <<100, 80>>) @@ (sKitchen :> <<60, 60>>) @@
    (sMasterBedroom :> <<80, 80>>) @@ (sKidsRoom :> <<70, 60>>) @@
    (sGuestRoom :> <<70, 60>>) @@ (sBathroom :> <<36, 48>>) @@
    (sBalcony :> <<40, 30>>)

\* DEFAULT_SIZES.get(room.type, (3.5, 3.0))
DefaultSizeOf(type) == IF type \in DOMAIN DEFAULT_SIZES THEN DEFAULT_SIZES[type] ELSE <<70, 60>>

_size_for(room) ==
    IF room.size_m # None /\ (Truthy(room.size_m[1].width_m) \/ Truthy(room.size_m[1].height_m))
    THEN LET sm == room.size_m[1]
         IN  << IF Truthy(sm.width_m) THEN sm.width_m[1] ELSE DefaultSizeOf(room.type)[1],
                IF Truthy(sm.height_m) THEN sm.height_m[1] ELSE DefaultSizeOf(room.type)[2] >>
    ELSE IF Truthy(room.min_width_m) /\ Truthy(room.min_height_m)
         THEN <<room.min_width_m[1], room.min_height_m[1]>>
         ELSE DefaultSizeOf(room.type)

(***************************************************************************)
(* Geometry on rects <<x, y, w, h>>.                                       *)
(***************************************************************************)
\* box(a).intersection(box(b)).area
InterArea(a, b) ==
    LET lo(r, i) == Min2(r[i], r[i] + r[i + 2])
        hi(r, i) == Max2(r[i], r[i] + r[i + 2])
        iw == Min2(hi(a, 1), hi(b, 1)) - Max2(lo(a, 1), lo(b, 1))
        ih == Min2(hi(a, 2), hi(b, 2)) - Max2(lo(a, 2), lo(b, 2))
    IN  IF iw > 0 /\ ih > 0 THEN iw * ih ELSE 0

\* _bbox / bounding(): <<minx, miny, maxx, maxy>> over x, x+w, y, y+h
_bbox(c) ==
    LET xs == {r[1] : r \in Values(c)} \cup {r[1] + r[3] : r \in Values(c)}
        ys == {r[2] : r \in Values(c)} \cup {r[2] + r[4] : r \in Values(c)}
    IN  <<SetMin(xs), SetMin(ys), SetMax(xs), SetMax(ys)>>

_bbox_area(c) == LET b == _bbox(c) IN (b[3] - b[1]) * (b[4] - b[2])

(***************************************************************************)
(* networkx.Graph: nodes and adjacency lists in insertion order.           *)
(***************************************************************************)
EmptyGraph == [nodes |-> <<>>, adj |-> <<>>]

add_node(g, n) ==
    IF n \in Range(g.nodes) THEN g
    ELSE [nodes |-> Append(g.nodes, n), adj |-> (n :> <<>>) @@ g.adj]

add_edge(g, u, v) ==
    LET g1 == add_node(add_node(g, u), v)
        au == IF v \in Range(g1.adj[u]) THEN g1.adj[u] ELSE Append(g1.adj[u], v)
        a1 == [g1.adj EXCEPT ![u] = au]
        av == IF u \in Range(a1[v]) THEN a1[v] ELSE Append(a1[v], u)
    IN  [nodes |-> g1.nodes, adj |-> [a1 EXCEPT ![v] = av]]

\* G.degree[a]: a self-loop counts twice
degree(g, a) == Len(g.adj[a]) + (IF a \in Range(g.adj[a]) THEN 1 ELSE 0)

RECURSIVE AddEdges(_, _)
AddEdges(g, es) == IF es = <<>> THEN g ELSE AddEdges(add_edge(g, Head(es)[1], Head(es)[2]), Tail(es))

RECURSIVE AddNodes(_, _)
AddNodes(g, ns) == IF ns = <<>> THEN g ELSE AddNodes(add_node(g, Head(ns)), Tail(ns))

\* list(nx.bfs_tree(G, root)): the nodes reachable from root, in discovery order
RECURSIVE BfsFrom(_, _, _)
BfsFrom(g, order, i) ==
    IF i > Len(order) THEN order
    ELSE BfsFrom(g, order \o SelectSeq(g.adj[order[i]], LAMBDA v : v \notin Range(order)), i + 1)

bfs_tree(g, root) == BfsFrom(g, <<root>>, 1)

(***************************************************************************)
(* Adjacency from the plan.                                                *)
(***************************************************************************)
\* adj.lower() in rr.type.lower() or adj.lower() in rr.id.lower()
TokenMatches(adj, rr) ==
    IsSubstring(lower(adj), lower(rr.type)) \/ IsSubstring(lower(adj), lower(rr.id))

\* (r.preferred_adjacent or [])
Prefs(r) == r.preferred_adjacent

\* the pairs (r.id, rr.id) of the three nested loops, in loop order
TokenPairs(rooms) ==
    Flatten([i \in 1..Len(rooms) |->
        Flatten([j \in 1..Len(Prefs(rooms[i])) |->
            LET hit == SelectSeq(rooms, LAMBDA rr : TokenMatches(Prefs(rooms[i])[j], rr))
            IN  [k \in 1..Len(hit) |-> <<rooms[i].id, hit[k].id>>]])])

\* d.get(key) on a door record
DoorGet(d, key) == IF key \in DOMAIN d.keys THEN d.keys[key] ELSE None

\* hasattr(d, name)
hasattr(d, name) == name \in DOMAIN d.attrs

StrTruthy(s) == s # <<>>

\* layout_gen's reading of one door: d.from_room if hasattr(...) else d.get("from")
GenDoorEnds(d) ==
    << IF hasattr(d, "from_room") THEN d.attrs["from_room"] ELSE DoorGet(d, "from"),
       IF hasattr(d, "to_room") THEN d.attrs["to_room"] ELSE DoorGet(d, "to") >>

GenDoorEdges(g, doors) ==
    LET ends == [i \in 1..Len(doors) |-> GenDoorEnds(doors[i])]
    IN  SelectSeq(ends, LAMBDA e : StrTruthy(e[1]) /\ StrTruthy(e[2])
                                      /\ e[1] \in Range(g.nodes) /\ e[2] \in Range(g.nodes))

\* the graph G of compact_snapping_layout
BuildGraph(p) ==
    LET g0 == AddNodes(EmptyGraph, [i \in 1..Len(p.rooms) |-> p.rooms[i].id])
        g1 == AddEdges(g0, TokenPairs(p.rooms))
    IN  IF p.doors # <<>> THEN AddEdges(g1, GenDoorEdges(g1, p.doors)) ELSE g1

RoomOf(p, rid) == LET i == CHOOSE j \in 1..Len(p.rooms) : p.rooms[j].id = rid
                      /\ \A k \in 1..(j - 1) : p.rooms[k].id # rid
                  IN  p.rooms[i]

RoomArea(r) == _size_for(r)[1] * _size_for(r)[2]

\* faulty variant of ChooseRoot: the largest room is taken whatever the types
ChooseRoot_largest(p) ==
    LET big == SelectSeq(p.rooms, LAMBDA r : \A q \in Range(p.rooms) : RoomArea(q) <= RoomArea(r))
    IN  big[1].id

\* faulty variant of ChooseRoot: the last room of the plan is taken
ChooseRoot_last(p) == p.rooms[Len(p.rooms)].id

\* root: first room whose type contains "living", else the first room of largest area
ChooseRoot(p) ==
    LET liv == SelectSeq(p.rooms, LAMBDA r : IsSubstring(sLiving, lower(r.type)))
        big == SelectSeq(p.rooms, LAMBDA r : \A q \in Range(p.rooms) : RoomArea(q) <= RoomArea(r))
    IN  IF liv # <<>> THEN liv[1].id ELSE big[1].id

(***************************************************************************)
(* The placer's candidate search.                                          *)
(***************************************************************************)
\* overlaps(candidate_box): some placed shape intersects it with area > 1e-6
overlaps(coords, cand) == \E s \in Values(coords) : InterArea(cand, s) * MicroPerArea > EpsMicro

Sides == <<"right", "left", "top", "bottom">>

slide_steps(side, aw, ah) ==
    Max2(1, (IF side \in {"right", "left"} THEN aw ELSE ah) \div SlideStep)

\* the candidate rect for one side and one slide index s (0-based)
CandidateAt(side, s, a, w, h) ==
    LET ax == a[1]  ay == a[2]  aw == a[3]  ah == a[4]
        x0 == CASE side = "right" -> ax + aw
                [] side = "left" -> ax - w
                [] OTHER -> ax
        y0 == CASE side = "top" -> ay - h
                [] side = "bottom" -> ay + ah
                [] OTHER -> ay
        n == slide_steps(side, aw, ah)
        offset == (s - (n \div 2)) * SlideStep
    IN  IF side \in {"right", "left"}
        THEN <<x0, IF n = 1 THEN y0 ELSE ay + ((ah - h) \div 2) + offset, w, h>>
        ELSE <<IF n = 1 THEN x0 ELSE ax + ((aw - w) \div 2) + offset, y0, w, h>>

\* every candidate in encounter order: right, left, top, bottom; slide index ascending
AllCandidates(a, w, h) ==
    Flatten([i \in 1..4 |->
        [s1 \in 1..slide_steps(Sides[i], a[3], a[4]) |-> CandidateAt(Sides[i], s1 - 1, a, w, h)]])

\* faulty variant of FirstMin: the last candidate of minimal area is taken
FirstMin_last(coords, node, cands) ==
    LET area(c) == _bbox_area(DictPut(coords, node, c))
        i == CHOOSE j \in 1..Len(cands) :
                /\ \A k \in 1..Len(cands) : area(cands[j]) <= area(cands[k])
                /\ \A k \in (j + 1)..Len(cands) : area(cands[k]) > area(cands[j])
    IN  cands[i]

\* candidates.sort(key=area) is stable: the first candidate of minimal area
FirstMin(coords, node, cands) ==
    LET area(c) == _bbox_area(DictPut(coords, node, c))
        i == CHOOSE j \in 1..Len(cands) :
                /\ \A k \in 1..Len(cands) : area(cands[j]) <= area(cands[k])
                /\ \A k \in 1..(j - 1) : area(cands[k]) > area(cands[j])
    IN  cands[i]

find_best_placement_for(p, coords, node, anchor_id) ==
    LET wh == _size_for(RoomOf(p, node))
        ok == SelectSeq(AllCandidates(coords.at[anchor_id], wh[1], wh[2]),
                        LAMBDA c : ~overlaps(coords, c))
    IN  IF ok = <<>> THEN None ELSE FirstMin(coords, node, ok)

\* faulty variant of SortByDegree: the anchors stay in adjacency order
RECURSIVE SortByDegree_unsorted(_, _)
SortByDegree_unsorted(g, s) == s

\* anchors.sort(key=lambda a: -G.degree[a]) is stable (insertion sort keeps ties in order)
RECURSIVE SortByDegree(_, _)
SortByDegree(g, s) ==
    IF s = <<>> THEN <<>>
    ELSE LET rest == SortByDegree(g, Tail(s))
             a == Head(s)
             before == SelectSeq(rest, LAMBDA b : degree(g, b) > degree(g, a))
             after == SelectSeq(rest, LAMBDA b : degree(g, b) <= degree(g, a))
         IN  before \o <<a>> \o after

Anchors(g, coords, node) == SortByDegree(g, SelectSeq(g.adj[node], LAMBDA n : Has(coords, n)))

\* the first anchor, in order, that yields a placement; None when none does
RECURSIVE FirstPlacement(_, _, _, _)
FirstPlacement(p, coords, node, as) ==
    IF as = <<>> THEN None
    ELSE LET place == find_best_placement_for(p, coords, node, Head(as))
         IN  IF place # None THEN place ELSE FirstPlacement(p, coords, node, Tail(as))

\* fallback: right of every placed room, 0.5 m past the rightmost edge, y = 0
FallbackPlace(p, coords, node) ==
    LET maxx == SetMax({c[1] + c[3] : c \in Values(coords)})
        wh == _size_for(RoomOf(p, node))
    IN  <<maxx + SlideStep, 0, wh[1], wh[2]>>

\* faulty variant of NormalizeGen: the margin is added, the minimum is not subtracted
NormalizeGen_drift(coords) ==
    [keys |-> coords.keys,
     at |-> [k \in Range(coords.keys) |->
                <<coords.at[k][1] + Margin, coords.at[k][2] + Margin,
                  coords.at[k][3], coords.at[k][4]>>]]

\* shift everything so that the bounding box's minimum corner is at (0.2, 0.2)
NormalizeGen(coords) ==
    LET b == _bbox(coords)
    IN  [keys |-> coords.keys,
         at |-> [k \in Range(coords.keys) |->
                    <<coords.at[k][1] - b[1] + Margin, coords.at[k][2] - b[2] + Margin,
                      coords.at[k][3], coords.at[k][4]>>]]

(***************************************************************************)
(* The cost model of layout_optimize.py.  A cost is an integer number of   *)
(* ticks of 5e-4; a centre distance is computed in tenths of a grid unit   *)
(* and rounded down (math.hypot is irrational in general).                 *)
(***************************************************************************)
RECURSIVE SumSeq(_)
SumSeq(s) == IF s = <<>> THEN 0 ELSE Head(s) + SumSeq(Tail(s))

RECURSIVE ISqrt(_)
ISqrt(n) == IF n < 2 THEN n
            ELSE LET r == 2 * ISqrt(n \div 4)
                 IN  IF (r + 1) * (r + 1) <= n THEN r + 1 ELSE r

\* faulty variant of total_overlap_area: overlap is not counted
total_overlap_area_none(c) == 0

\* sum of the intersection areas over all unordered pairs of rooms
total_overlap_area(c) ==
    SumSeq(Flatten([i \in 1..Len(c.keys) |->
        [j1 \in 1..(Len(c.keys) - i) |-> InterArea(c.at[c.keys[i]], c.at[c.keys[i + j1]])]]))

\* sum of the centre distances over the pair list (an id not in coords is skipped),
\* in tenths of a grid unit
adjacency_distance_cost(c, pairs) ==
    LET dist(pr) ==
            IF ~Has(c, pr[1]) \/ ~Has(c, pr[2]) THEN 0
            ELSE LET a == c.at[pr[1]]  b == c.at[pr[2]]
                     dx2 == (2 * a[1] + a[3]) - (2 * b[1] + b[3])
                     dy2 == (2 * a[2] + a[4]) - (2 * b[2] + b[4])
                 IN  ISqrt(25 * (dx2 * dx2 + dy2 * dy2))
    IN  SumSeq([i \in 1..Len(pairs) |-> dist(pairs[i])])

\* max(0.0001, bbox area) in ticks, 5 ticks per grid unit squared; the floor 0.0001
\* (a fifth of a tick, taken as one tick) applies only to a box of area zero
bbox_area(c) == LET b == _bbox(c) IN Max2(1, 5 * ((b[3] - b[1]) * (b[4] - b[2])))

\* sum over rooms of max(0, max(w/h, h/w) - 1.5), in thousandths
aspect_ratio_penalty(c) ==
    LET ratio(w, h) == IF h > 0 THEN (1000 * w) \div h ELSE 1000000000
        pen(rc) == Max2(0, Max2(ratio(rc[3], rc[4]), ratio(rc[4], rc[3])) - 1500)
    IN  SumSeq([i \in 1..Len(c.keys) |-> pen(c.at[c.keys[i]])])

\* weights overlap 100, adjacency 0.2, area 1.0, aspect 0.5, in ticks per model unit
weights == [overlap_w |-> 500, adj_w |-> 2, area_w |-> 1, aspect_w |-> 1]

cost_fn(c, pairs) ==
    weights.overlap_w * total_overlap_area(c) + weights.adj_w * adjacency_distance_cost(c, pairs)
        + weights.area_w * bbox_area(c) + weights.aspect_w * aspect_ratio_penalty(c)

(***************************************************************************)
(* The module-level generator of `random`.  The Mersenne Twister is stood  *)
(* in for by a small congruential generator: what the model keeps is that  *)
(* there is ONE generator state per process, that random.seed(n) sets it   *)
(* as a function of n, and that every draw reads and advances it.  A draw  *)
(* yields k in 0..15, standing for the float k/16 of random.random().      *)
(***************************************************************************)
RngStates == 0..250
SeedState(n) == (97 * n + 3) % 251
\* faulty variant of random_seed: the generator keeps its state
random_seed_noop(s, n) == s

\* random.seed(n): the generator's state s is replaced
random_seed(s, n) == SeedState(n)
RngNext(s) == (33 * s + 17) % 251
RngOut(s) == s % 16

\* random.choice(seq) for the draw k
Choice(seq, k) == seq[((k * Len(seq)) \div 16) + 1]

\* random.uniform(-max_shift, max_shift) for the draw k, max_shift in grid units
Uniform(max_shift, k) == (0 - max_shift) + ((2 * max_shift * k) \div 16)

\* faulty variant of _random_neighbor: the shifted room is also rotated
_random_neighbor_rotate(c, room_ids, max_shift, k1, k2, k3) ==
    LET rid == Choice(room_ids, k1)
        rc == c.at[rid]
    IN  DictPut(c, rid, <<rc[1] + Uniform(max_shift, k2), rc[2] + Uniform(max_shift, k3), rc[4], rc[3]>>)

\* _random_neighbor: a copy of coords with one room shifted; three draws k1, k2, k3
_random_neighbor(c, room_ids, max_shift, k1, k2, k3) ==
    LET rid == Choice(room_ids, k1)
        rc == c.at[rid]
    IN  DictPut(c, rid, <<rc[1] + Uniform(max_shift, k2), rc[2] + Uniform(max_shift, k3), rc[3], rc[4]>>)

\* floor(1e4 * ln(16/k)) for k in 1..15
LnInv == <<27725, 20794, 16739, 13862, 11631, 9808, 8266, 6931, 5753, 4700, 3746, 2876, 2076, 1335, 645>>

\* random.random() < math.exp(-delta / max(1e-6, T)) for the draw k, delta >= 0 in
\* ticks and T = 1 - it/n.  k = 0 is the float 0.0: below exp(..) unless exp underflows
\* to 0.0, which it does past an exponent of about -745.
Metropolis(delta, it, n, k) ==
    LET tiny == (n - it) * 1000000 < n
        num == IF tiny THEN 1 ELSE n - it
        den == IF tiny THEN 1000000 ELSE n
    IN  IF tiny
        THEN IF k = 0 THEN delta <= 1 ELSE delta = 0
        ELSE IF k = 0
             THEN delta <= 1490000 /\ delta * den <= 1490000 * num
             ELSE delta <= 6000 /\ 5 * delta * den < LnInv[k] * num

\* the four touching positions of room rid against every other room, in loop order
SnapPositions(c, room_ids, rid) ==
    LET aw == c.at[rid][3]
        ah == c.at[rid][4]
        others == SelectSeq(room_ids, LAMBDA nid : nid # rid)
    IN  Flatten([i \in 1..Len(others) |->
            LET b == c.at[others[i]]
            IN  << <<b[1] - aw, b[2]>>, <<b[1] + b[3], b[2]>>,
                   <<b[1], b[2] - ah>>, <<b[1], b[2] + b[4]>> >>])

SnapTo(c, rid, pos) == DictPut(c, rid, <<pos[1], pos[2], c.at[rid][3], c.at[rid][4]>>)

\* faulty variant of BestSnap: the first touching position is taken whatever its cost
BestSnap_first(c, room_ids, rid, pairs) ==
    LET ps == SnapPositions(c, room_ids, rid)
    IN  IF ps = <<>> THEN None ELSE ps[1]

\* best_snap: the first position of minimal cost (c < best_snap_cost is strict); None
\* when there is no other room
BestSnap(c, room_ids, rid, pairs) ==
    LET ps == SnapPositions(c, room_ids, rid)
        cost(i) == cost_fn(SnapTo(c, rid, ps[i]), pairs)
    IN  IF ps = <<>> THEN None
        ELSE LET i == CHOOSE j \in 1..Len(ps) :
                        /\ \A k \in 1..Len(ps) : cost(j) <= cost(k)
                        /\ \A k \in 1..(j - 1) : cost(k) > cost(j)
             IN  ps[i]

\* faulty variant of AcceptStep: best follows every accepted candidate
AcceptStep_follow(o, candidate, cand_cost, accept) ==
    [o EXCEPT !.current = IF accept THEN candidate ELSE @,
              !.current_cost = IF accept THEN cand_cost ELSE @,
              !.best = IF accept THEN candidate ELSE @,
              !.best_cost = IF accept THEN cand_cost ELSE @]

\* lines 112-117: on acceptance current becomes the candidate, and best too when the
\* candidate's cost is below best_cost
AcceptStep(o, candidate, cand_cost, accept) ==
    LET better == accept /\ cand_cost < o.best_cost
    IN  [o EXCEPT !.current = IF accept THEN candidate ELSE @,
                  !.current_cost = IF accept THEN cand_cost ELSE @,
                  !.best = IF better THEN candidate ELSE @,
                  !.best_cost = IF better THEN cand_cost ELSE @]

\* faulty variant of SnapStep: best is the same dict as current, so a snap move on
\* current shows in best while best_cost stays
SnapStep_alias(o, best_snap, snapped, best_snap_cost) ==
    LET move == best_snap # None /\ best_snap_cost < o.current_cost
        better == move /\ best_snap_cost < o.best_cost
    IN  [o EXCEPT !.current = IF move THEN snapped ELSE @,
                  !.current_cost = IF move THEN best_snap_cost ELSE @,
                  !.best = IF move THEN snapped ELSE @,
                  !.best_cost = IF better THEN best_snap_cost ELSE @]

\* faulty variant of SnapStep: the best snap is applied and recorded as best without
\* comparing costs
SnapStep_always(o, best_snap, snapped, best_snap_cost) ==
    LET move == best_snap # None
    IN  [o EXCEPT !.current = IF move THEN snapped ELSE @,
                  !.current_cost = IF move THEN best_snap_cost ELSE @,
                  !.best = IF move THEN snapped ELSE @,
                  !.best_cost = IF move THEN best_snap_cost ELSE @]

\* lines 144-149: the best snap is applied to current when its cost is strictly below
\* current_cost, and copied to best when below best_cost
SnapStep(o, best_snap, snapped, best_snap_cost) ==
    LET move == best_snap # None /\ best_snap_cost < o.current_cost
        better == move /\ best_snap_cost < o.best_cost
    IN  [o EXCEPT !.current = IF move THEN snapped ELSE @,
                  !.current_cost = IF move THEN best_snap_cost ELSE @,
                  !.best = IF better THEN snapped ELSE @,
                  !.best_cost = IF better THEN best_snap_cost ELSE @]

\* faulty variant of NormalizeOpt: the shift leaves out the margin
NormalizeOpt_nomargin(c) ==
    LET b == _bbox(c)
    IN  [keys |-> c.keys,
         at |-> [k \in Range(c.keys) |->
                    <<c.at[k][1] - b[1], c.at[k][2] - b[2], c.at[k][3], c.at[k][4]>>]]

\* final normalization of optimize_layout: shift by (-minx + 0.2, -miny + 0.2)
NormalizeOpt(c) ==
    LET b == _bbox(c)
        shiftx == (0 - b[1]) + Margin
        shifty == (0 - b[2]) + Margin
    IN  [keys |-> c.keys,
         at |-> [k \in Range(c.keys) |->
                    <<c.at[k][1] + shiftx, c.at[k][2] + shifty, c.at[k][3], c.at[k][4]>>]]

(***************************************************************************)
(* Inputs.                                                                 *)
(***************************************************************************)
MaxSeed == 2
MaxBudget == 2

Seeds == 0..MaxSeed
\* iteration budgets: the small ones, and one that reaches the second snap pass
Budgets == (0..MaxBudget) \cup {SnapEvery + 1}

Size(w, h) == Some([width_m |-> Some(w), height_m |-> Some(h)])

Room(id, type, size, minw, minh, prefs) ==
    [id |-> id, type |-> type, size_m |-> size, min_width_m |-> minw, min_height_m |-> minh,
     preferred_adjacent |-> prefs]

\* a door as a pydantic DoorSpec (attributes) and as a dict of hardcoded_plan (keys)
DoorObj(a, b) == [isdict |-> FALSE, attrs |-> [from_room |-> a, to_room |-> b], keys |-> <<>>]
DoorDict(a, b) == [isdict |-> TRUE, attrs |-> <<>>, keys |-> [from_room |-> a, to_room |-> b]]

\* two rooms a (4x3) and b (3x3), a prefers "b", no doors
PlanTwo ==
    [rooms |-> << Room(<<"a">>, <<"A">>, Size(80, 60), None, None, << <<"b">> >>),
                  Room(<<"b">>, <<"B">>, Size(60, 60), None, None, <<>>) >>,
     doors |-> <<>>]

\* a living room, a kitchen it prefers, and a store that nothing connects to them
PlanIsland ==
    [rooms |-> << Room(<<"l","i","v">>, sLivingRoom, None, None, None, << <<"k","i","t","c","h","e","n">> >>),
                  Room(<<"k","i","t">>, sKitchen, None, Some(60), Some(50), <<>>),
                  Room(<<"s","t","o","r","e">>, <<"S","t","o","r","e">>, None, None, None, <<>>) >>,
     doors |-> <<>>]

\* a small hall with three neighbours: the last one finds no free side
PlanCrowd ==
    [rooms |-> << Room(<<"h">>, <<"L","i","v","i","n","g">>, Size(20, 10), None, None, <<>>),
                  Room(<<"b">>, <<"B","e","d">>, Size(80, 60), None, None, <<>>),
                  Room(<<"c">>, <<"D","e","n">>, Size(60, 80), None, None, <<>>),
                  Room(<<"d">>, <<"B","a","t","h">>, Size(40, 20), None, None, <<>>) >>,
     doors |-> << DoorObj(<<"h">>, <<"d">>), DoorObj(<<"h">>, <<"b">>),
                  DoorObj(<<"h">>, <<"c">>), DoorObj(<<"b">>, <<"d">>) >>]

\* two rooms joined only by a door, the door given as a dict
PlanDictDoor ==
    [rooms |-> << Room(<<"m">>, sMasterBedroom, Size(80, 80), None, None, <<>>),
                  Room(<<"b","a","t","h","1">>, sBathroom, Size(56, 60), None, None, <<>>) >>,
     doors |-> << DoorDict(<<"m">>, <<"b","a","t","h","1">>) >>]

\* a token that also matches the room's own type, and a mutual preference
PlanBeds ==
    [rooms |-> << Room(<<"g">>, sGuestRoom, None, None, None, << <<"R","o","o","m">> >>),
                  Room(<<"k">>, sKidsRoom, Size(70, 0), None, None, << <<"g","u","e","s","t">> >>),
                  Room(<<"b","a","l">>, sBalcony, None, None, None, << <<"k","i","d">>, <<"n","o","n","e">> >>) >>,
     doors |-> << DoorObj(<<"g">>, <<"x">>) >>]

\* a chain a - b - c in which c's explicit size is negative (-3 x -3)
PlanNegative ==
    [rooms |-> << Room(<<"a">>, <<"A">>, Size(80, 60), None, None, << <<"b">> >>),
                  Room(<<"b">>, <<"B">>, Size(100, 80), None, None, << <<"c">> >>),
                  Room(<<"c">>, <<"C">>, Size(-60, -60), None, None, <<>>) >>,
     doors |-> <<>>]

\* a kitchen whose token "kitchen" matches its own type and the id of a pantry, and a
\* hall whose token matches nothing; no doors
PlanKitchens ==
    [rooms |-> << Room(<<"k">>, sKitchen, None, None, None, << <<"k","i","t","c","h","e","n">> >>),
                  Room(<<"k","i","t","c","h","e","n","e","t","t","e">>, <<"P","a","n","t","r","y">>,
                       None, None, None, <<>>),
                  Room(<<"h","a","l","l">>, <<"H","a","l","l">>, None, None, None,
                       << <<"g","a","r","a","g","e">> >>) >>,
     doors |-> <<>>]

\* a narrow tall room a (0.5x3) between the root b (3x4) and c (2x2): doors a-b, a-c
PlanSlide ==
    [rooms |-> << Room(<<"a">>, <<"A">>, Size(10, 60), None, None, <<>>),
                  Room(<<"b">>, <<"B">>, Size(60, 80), None, None, <<>>),
                  Room(<<"c">>, <<"C">>, Size(40, 40), None, None, <<>>) >>,
     doors |-> << DoorObj(<<"a">>, <<"b">>), DoorObj(<<"a">>, <<"c">>) >>]

\* n's neighbours are x (degree 2), met first, and the root r (degree 3)
PlanOrder ==
    [rooms |-> << Room(<<"r">>, <<"L","i","v","i","n","g">>, Size(80, 60), None, None, <<>>),
                  Room(<<"x">>, <<"D","e","n">>, Size(60, 60), None, None, <<>>),
                  Room(<<"n">>, <<"B","a","t","h">>, Size(40, 40), None, None, <<>>),
                  Room(<<"y">>, <<"B","e","d">>, Size(40, 60), None, None, <<>>) >>,
     doors |-> << DoorObj(<<"x">>, <<"n">>), DoorObj(<<"r">>, <<"x">>),
                  DoorObj(<<"r">>, <<"n">>), DoorObj(<<"r">>, <<"y">>) >>]

\* two rooms whose types contain "living" in different case, after a room that does not
PlanLivings ==
    [rooms |-> << Room(<<"p">>, <<"D","e","n">>, Size(60, 60), None, None, <<>>),
                  Room(<<"q">>, <<"L","I","V","I","N","G"," ","a","r","e","a">>, Size(40, 40),
                       None, None, <<>>),
                  Room(<<"s">>, <<"L","i","v","i","n","g">>, Size(80, 80), None, None, <<>>) >>,
     doors |-> << DoorObj(<<"p">>, <<"q">>), DoorObj(<<"q">>, <<"s">>) >>]

\* no living room, and two rooms tie for the largest area
PlanTie ==
    [rooms |-> << Room(<<"t">>, <<"B","a","t","h">>, Size(20, 20), None, None, <<>>),
                  Room(<<"u">>, <<"D","e","n">>, Size(60, 40), None, None, <<>>),
                  Room(<<"v">>, <<"B","e","d">>, Size(40, 60), None, None, <<>>) >>,
     doors |-> << DoorObj(<<"t">>, <<"u">>), DoorObj(<<"u">>, <<"v">>) >>]

PlanEmpty == [rooms |-> <<>>, doors |-> <<>>]

Plans == {PlanTwo, PlanIsland, PlanCrowd, PlanDictDoor, PlanBeds, PlanNegative, PlanKitchens,
          PlanSlide, PlanOrder, PlanLivings, PlanTie, PlanEmpty}

(***************************************************************************)
(* run_pipeline.build_adjacency_pairs                                      *)
(***************************************************************************)
\* a or b, on optional strings
StrOr(a, b) == IF StrTruthy(a) THEN a ELSE b

PipeDoorEnds(d) ==
    IF d.isdict
    THEN << StrOr(DoorGet(d, "from_room"), DoorGet(d, "from")),
            StrOr(DoorGet(d, "to_room"), DoorGet(d, "to")) >>
    ELSE << IF hasattr(d, "from_room") THEN d.attrs["from_room"] ELSE None,
            IF hasattr(d, "to_room") THEN d.attrs["to_room"] ELSE None >>

\* list(dict.fromkeys(pairs)): the first occurrence of every (a, b) tuple, in order
RECURSIVE Dedupe(_, _)
Dedupe(done, todo) ==
    IF todo = <<>> THEN done
    ELSE Dedupe(IF Head(todo) \in Range(done) THEN done ELSE Append(done, Head(todo)), Tail(todo))

build_adjacency_pairs(p) ==
    LET ends == [i \in 1..Len(p.doors) |-> PipeDoorEnds(p.doors[i])]
        doorPairs == SelectSeq(ends, LAMBDA e : StrTruthy(e[1]) /\ StrTruthy(e[2]))
    IN  Dedupe(<<>>, TokenPairs(p.rooms) \o doorPairs)

(***************************************************************************)
(* State.  Three runs: run 0, and runs 1 and 2 for the specifications that *)
(* call the code again (in sequence, or in two threads).                   *)
(***************************************************************************)
Runs == {0, 1, 2}

VARIABLES
    plan,   \* the Plan, read-only input
    pc,     \* per run: where the run stands
    gen,    \* per run: locals of compact_snapping_layout (G, root, coords, bfs_nodes, i)
    args,   \* per run: arguments of optimize_layout
    opt,    \* per run: locals of optimize_layout
    ret,    \* per run: coords_initial and coords_opt, the two returned layouts
    rng     \* state of the module-level generator of `random`, one per process

vars == <<plan, pc, gen, args, opt, ret, rng>>

NoGen == [G |-> EmptyGraph, root |-> None, coords |-> EmptyDict, bfs_nodes |-> <<>>, i |-> 0]
\* adjacency_pairs is optional: None, or Some(list of pairs)
NoArgs == [initial_coords |-> EmptyDict, adjacency_pairs |-> None, iterations |-> 0, seed |-> 0]
NoOpt == [current |-> EmptyDict, current_cost |-> 0, best |-> EmptyDict, best_cost |-> 0,
          it |-> 0, room_ids |-> <<>>, rid |-> 0, draws |-> 0]
NoRet == [coords_initial |-> EmptyDict, coords_opt |-> EmptyDict]

\* the generator's state when the process starts (seeded from the system: any state;
\* two of them are kept)
BootRngStates == {0, 250}

Init ==
    /\ plan \in Plans
    /\ pc = [r \in Runs |-> "idle"]
    /\ gen = [r \in Runs |-> NoGen]
    /\ args = [r \in Runs |-> NoArgs]
    /\ opt = [r \in Runs |-> NoOpt]
    /\ ret = [r \in Runs |-> NoRet]
    /\ rng \in BootRngStates

(***************************************************************************)
(* compact_snapping_layout                                                 *)
(***************************************************************************)
\* lines 40-75 and 138: build G, choose the root, seed it at (0, 0), list the BFS order
place_initial(r) ==
    /\ pc[r] = "idle"
    /\ plan.rooms # <<>>
    /\ LET g == BuildGraph(plan)
           root == ChooseRoot(plan)
           wh == _size_for(RoomOf(plan, root))
       IN  gen' = [gen EXCEPT ![r] = [G |-> g, root |-> root,
                                      coords |-> DictPut(EmptyDict, root, <<0, 0, wh[1], wh[2]>>),
                                      bfs_nodes |-> bfs_tree(g, root), i |-> 1]]
    /\ pc' = [pc EXCEPT ![r] = "place"]
    /\ UNCHANGED <<plan, args, opt, ret, rng>>

\* line 64: max() of an empty room list raises ValueError
RaiseEmptyPlan(r) ==
    /\ pc[r] = "idle"
    /\ plan.rooms = <<>>
    /\ pc' = [pc EXCEPT ![r] = "ValueError"]
    /\ UNCHANGED <<plan, gen, args, opt, ret, rng>>

InPlaceLoop(r) == pc[r] = "place" /\ gen[r].i <= Len(gen[r].bfs_nodes)
LoopNode(r) == gen[r].bfs_nodes[gen[r].i]
LoopPlacement(r) ==
    FirstPlacement(plan, gen[r].coords, LoopNode(r), Anchors(gen[r].G, gen[r].coords, LoopNode(r)))

\* the anchor `a` of the loop at lines 147-154 whose placement is taken
RECURSIVE FirstAnchor(_, _, _, _)
FirstAnchor(p, coords, node, as) ==
    IF as = <<>> THEN None
    ELSE IF find_best_placement_for(p, coords, node, Head(as)) # None THEN Head(as)
         ELSE FirstAnchor(p, coords, node, Tail(as))

LoopAnchor(r) ==
    FirstAnchor(plan, gen[r].coords, LoopNode(r), Anchors(gen[r].G, gen[r].coords, LoopNode(r)))

\* lines 140-141: a node that already has coords (the root) is skipped
SkipPlaced(r) ==
    /\ InPlaceLoop(r)
    /\ Has(gen[r].coords, LoopNode(r))
    /\ gen' = [gen EXCEPT ![r].i = @ + 1]
    /\ UNCHANGED <<plan, pc, args, opt, ret, rng>>

\* lines 143-154: place the node at the first anchor that yields a candidate
PlaceAtAnchor(r) ==
    /\ InPlaceLoop(r)
    /\ ~Has(gen[r].coords, LoopNode(r))
    /\ LoopPlacement(r) # None
    /\ gen' = [gen EXCEPT ![r].coords = DictPut(@, LoopNode(r), LoopPlacement(r)), ![r].i = @ + 1]
    /\ UNCHANGED <<plan, pc, args, opt, ret, rng>>

\* lines 155-163: no anchor yields a candidate
PlaceFallback(r) ==
    /\ InPlaceLoop(r)
    /\ ~Has(gen[r].coords, LoopNode(r))
    /\ LoopPlacement(r) = None
    /\ gen' = [gen EXCEPT ![r].coords = DictPut(@, LoopNode(r), FallbackPlace(plan, @, LoopNode(r))),
                          ![r].i = @ + 1]
    /\ UNCHANGED <<plan, pc, args, opt, ret, rng>>

\* lines 166-177: shift to the margin and return coords
NormalizeReturn(r) ==
    /\ pc[r] = "place"
    /\ gen[r].i > Len(gen[r].bfs_nodes)
    /\ gen' = [gen EXCEPT ![r].coords = NormalizeGen(@)]
    /\ ret' = [ret EXCEPT ![r].coords_initial = NormalizeGen(gen[r].coords)]
    /\ pc' = [pc EXCEPT ![r] = "placed"]
    /\ UNCHANGED <<plan, args, opt, rng>>

(***************************************************************************)
(* run_pipeline.main, steps 2 and 3, and optimize_layout                   *)
(***************************************************************************)
\* main, lines 175-176: the pair list is built and optimize_layout is called on the
\* placer's layout (main passes iterations=2500 and seed=123; any budget and seed here)
main_call(r, budgets) ==
    /\ pc[r] = "placed"
    /\ \E n \in budgets, sd \in Seeds :
           args' = [args EXCEPT ![r] = [initial_coords |-> ret[r].coords_initial,
                                        adjacency_pairs |-> Some(build_adjacency_pairs(plan)),
                                        iterations |-> n, seed |-> sd]]
    /\ pc' = [pc EXCEPT ![r] = "called"]
    /\ UNCHANGED <<plan, gen, opt, ret, rng>>

\* lines 84-103: seed the generator, copy the layout, infer the pairs if none were given,
\* cost the layout
optimize_start(r) ==
    /\ pc[r] = "called"
    /\ rng' = random_seed(rng, args[r].seed)
    /\ LET current == args[r].initial_coords
           pairs == IF args[r].adjacency_pairs = None THEN TokenPairs(plan.rooms)
                    ELSE args[r].adjacency_pairs[1]
           cost == cost_fn(current, pairs)
       IN  /\ opt' = [opt EXCEPT ![r] = [current |-> current, current_cost |-> cost,
                                         best |-> current, best_cost |-> cost,
                                         it |-> 0, room_ids |-> current.keys, rid |-> 0,
                                         draws |-> 0]]
           /\ args' = [args EXCEPT ![r].adjacency_pairs = Some(pairs)]
    /\ pc' = [pc EXCEPT ![r] = "anneal"]
    /\ UNCHANGED <<plan, gen, ret>>

PairsOf(r) == args[r].adjacency_pairs[1]

\* faulty variant of RandomStep: the Metropolis draw is made in every iteration
RandomStep_fourdraws(r) ==
    /\ pc[r] = "anneal"
    /\ opt[r].it < args[r].iterations
    /\ LET o == opt[r]
           s1 == RngNext(rng)
           s2 == RngNext(s1)
           s3 == RngNext(s2)
           s4 == RngNext(s3)
           candidate == _random_neighbor(o.current, o.room_ids, MaxShift,
                                         RngOut(s1), RngOut(s2), RngOut(s3))
           cand_cost == cost_fn(candidate, PairsOf(r))
           delta == cand_cost - o.current_cost
           accept == delta < 0 \/ Metropolis(delta, o.it, args[r].iterations, RngOut(s4))
           snap == o.it % SnapEvery = 0
       IN  /\ rng' = s4
           /\ opt' = [opt EXCEPT ![r] =
                         [AcceptStep(o, candidate, cand_cost, accept)
                              EXCEPT !.it = IF snap THEN @ ELSE @ + 1,
                                     !.rid = IF snap THEN 1 ELSE 0,
                                     !.draws = @ + 4]]
           /\ pc' = [pc EXCEPT ![r] = IF snap THEN "snap" ELSE "anneal"]
    /\ UNCHANGED <<plan, gen, args, ret>>

\* lines 107-117 of iteration `it`: one random neighbour, accepted if better or by the
\* Metropolis test (whose draw is made only when delta >= 0)
RandomStep(r) ==
    /\ pc[r] = "anneal"
    /\ opt[r].it < args[r].iterations
    /\ LET o == opt[r]
           s1 == RngNext(rng)
           s2 == RngNext(s1)
           s3 == RngNext(s2)
           s4 == RngNext(s3)
           candidate == _random_neighbor(o.current, o.room_ids, MaxShift,
                                         RngOut(s1), RngOut(s2), RngOut(s3))
           cand_cost == cost_fn(candidate, PairsOf(r))
           delta == cand_cost - o.current_cost
           accept == delta < 0 \/ Metropolis(delta, o.it, args[r].iterations, RngOut(s4))
           snap == o.it % SnapEvery = 0
       IN  /\ rng' = IF delta < 0 THEN s3 ELSE s4
           /\ opt' = [opt EXCEPT ![r] =
                         [AcceptStep(o, candidate, cand_cost, accept)
                              EXCEPT !.it = IF snap THEN @ ELSE @ + 1,
                                     !.rid = IF snap THEN 1 ELSE 0,
                                     !.draws = @ + (IF delta < 0 THEN 3 ELSE 4)]]
           /\ pc' = [pc EXCEPT ![r] = IF snap THEN "snap" ELSE "anneal"]
    /\ UNCHANGED <<plan, gen, args, ret>>

\* lines 121-149 for one room of the snap pass of iteration `it` (it % 200 = 0)
SnapRoom(r) ==
    /\ pc[r] = "snap"
    /\ LET o == opt[r]
           rid == o.room_ids[o.rid]
           best_snap == BestSnap(o.current, o.room_ids, rid, PairsOf(r))
           snapped == IF best_snap = None THEN o.current ELSE SnapTo(o.current, rid, best_snap)
           best_snap_cost == IF best_snap = None THEN 0 ELSE cost_fn(snapped, PairsOf(r))
           last == o.rid = Len(o.room_ids)
       IN  /\ opt' = [opt EXCEPT ![r] =
                         [SnapStep(o, best_snap, snapped, best_snap_cost)
                              EXCEPT !.it = IF last THEN @ + 1 ELSE @,
                                     !.rid = IF last THEN 0 ELSE @ + 1]]
           /\ pc' = [pc EXCEPT ![r] = IF last THEN "anneal" ELSE "snap"]
    /\ UNCHANGED <<plan, gen, args, ret, rng>>

\* lines 151-159: the budget is spent; normalize best in place and return it
optimize_return(r) ==
    /\ pc[r] = "anneal"
    /\ opt[r].it >= args[r].iterations
    /\ opt' = [opt EXCEPT ![r].best = NormalizeOpt(@)]
    /\ ret' = [ret EXCEPT ![r].coords_opt = NormalizeOpt(opt[r].best)]
    /\ pc' = [pc EXCEPT ![r] = "done"]
    /\ UNCHANGED <<plan, gen, args, rng>>

(***************************************************************************)
(* Specifications.                                                         *)
(***************************************************************************)
Placer(r) ==
    \/ place_initial(r)
    \/ RaiseEmptyPlan(r)
    \/ SkipPlaced(r)
    \/ PlaceAtAnchor(r)
    \/ PlaceFallback(r)
    \/ NormalizeReturn(r)

Optimizer(r) ==
    \/ optimize_start(r)
    \/ RandomStep(r)
    \/ SnapRoom(r)
    \/ optimize_return(r)

Finished(r) == pc[r] \in {"done", "ValueError"}

\* Spec: one run of the pipeline (placer, then optimizer) on a plan
Next == Placer(0) \/ main_call(0, Budgets) \/ Optimizer(0)

Spec == Init /\ [][Next]_vars

\* SpecSeq: the pipeline run twice in one process, one run after the other
SeqBudgets == 0..MaxBudget

NextSeq ==
    \/ Placer(0) \/ main_call(0, SeqBudgets) \/ Optimizer(0)
    \/ (Finished(0) /\ (Placer(1) \/ main_call(1, SeqBudgets) \/ Optimizer(1)))

SpecSeq == Init /\ [][NextSeq]_vars

(***************************************************************************)
(* optimize_layout called directly on a layout.                            *)
(***************************************************************************)
Layout2(ax, ay, bx, by) ==
    DictPut(DictPut(EmptyDict, <<"a">>, <<ax, ay, 80, 60>>), <<"b">>, <<bx, by, 60, 60>>)

\* non-overlapping layouts of the rooms a (4x3) and b (3x3) of PlanTwo: b beside a,
\* at a's corner, or apart from it; a alone; and a, b with a third room c (5x4) apart
OptLayouts ==
    { Layout2(0, 0, bxy[1], bxy[2]) :
        bxy \in {<<80, 0>>, <<80, 60>>, <<82, 62>>, <<100, 10>>, <<-60, -60>>, <<10, 60>>} }
    \cup { DictPut(EmptyDict, <<"a">>, <<4, 4, 80, 60>>) }
    \cup { DictPut(Layout2(62, -32, 136, 120), <<"c">>, <<-22, 138, 100, 80>>) }

OptPairLists ==
    { None,
      Some(<<>>),
      Some(<< <<<<"a">>, <<"b">>>>, <<<<"b">>, <<"a">>>>, <<<<"a">>, <<"z">>>> >>) }

InitOpt ==
    /\ plan = PlanTwo
    /\ pc = [r \in Runs |-> IF r = 0 THEN "called" ELSE "idle"]
    /\ gen = [r \in Runs |-> NoGen]
    /\ \E c \in OptLayouts, ps \in OptPairLists, n \in Budgets, sd \in Seeds :
           args = [r \in Runs |-> IF r = 0
                                  THEN [initial_coords |-> c, adjacency_pairs |-> ps,
                                        iterations |-> n, seed |-> sd]
                                  ELSE NoArgs]
    /\ opt = [r \in Runs |-> NoOpt]
    /\ ret = [r \in Runs |-> NoRet]
    /\ rng \in BootRngStates

NextOpt == Optimizer(0)

SpecOpt == InitOpt /\ [][NextOpt]_vars

(***************************************************************************)
(* Two optimize_layout calls in two threads of one process, after a call   *)
(* that ran alone.                                                         *)
(***************************************************************************)
\* a and b side by side, and a, b and a third room c (5x4) apart from each other
ConcLayouts ==
    { Layout2(0, 0, 80, 0),
      DictPut(Layout2(40, -20, 60, 140), <<"c">>, <<-50, 100, 100, 80>>) }
ConcBudgets == 0..MaxBudget

InitConc ==
    /\ plan = PlanTwo
    /\ pc = [r \in Runs |-> IF r = 0 THEN "called" ELSE "idle"]
    /\ gen = [r \in Runs |-> NoGen]
    /\ \E c \in ConcLayouts, n \in ConcBudgets, sd \in Seeds :
           args = [r \in Runs |-> IF r = 0
                                  THEN [initial_coords |-> c, adjacency_pairs |-> None,
                                        iterations |-> n, seed |-> sd]
                                  ELSE NoArgs]
    /\ opt = [r \in Runs |-> NoOpt]
    /\ ret = [r \in Runs |-> NoRet]
    /\ rng \in BootRngStates

\* threading.Thread(target=optimize_layout, ...).start(), twice: thread 1 is given the
\* arguments of run 0, thread 2 the same layout with any seed and budget
ThreadsStart ==
    /\ pc[0] = "done"
    /\ pc[1] = "idle"
    /\ pc[2] = "idle"
    /\ \E n \in ConcBudgets, sd \in Seeds :
           args' = [args EXCEPT ![1] = [args[0] EXCEPT !.adjacency_pairs = None],
                                ![2] = [args[0] EXCEPT !.adjacency_pairs = None,
                                                       !.iterations = n, !.seed = sd]]
    /\ pc' = [pc EXCEPT ![1] = "called", ![2] = "called"]
    /\ UNCHANGED <<plan, gen, opt, ret, rng>>

NextConc == ThreadsStart \/ \E r \in Runs : Optimizer(r)

SpecConc == InitConc /\ [][NextConc]_vars

(***************************************************************************)
(* compact_snapping_layout on a plan of one room, over the combinations of *)
(* that room's size fields: the root's rect carries _size_for's result.    *)
(***************************************************************************)
\* an optional number: absent, zero, positive (2.5 m, 2 m) or negative (-3 m)
OptSizes == {None, Some(0), Some(50), Some(-60)}
OptHints == {None, Some(0), Some(40)}

SizeFields == {None} \cup {Some([width_m |-> w, height_m |-> h]) : w, h \in OptSizes}

\* a type of the default table and one that is not in it
SizeTypes == {sKitchen, <<"D","e","n">>}

SizePlans ==
    { [rooms |-> << Room(<<"r">>, t, sz, mw, mh, <<>>) >>, doors |-> <<>>] :
        t \in SizeTypes, sz \in SizeFields, mw \in OptHints, mh \in OptHints }

InitSize ==
    /\ plan \in SizePlans
    /\ pc = [r \in Runs |-> "idle"]
    /\ gen = [r \in Runs |-> NoGen]
    /\ args = [r \in Runs |-> NoArgs]
    /\ opt = [r \in Runs |-> NoOpt]
    /\ ret = [r \in Runs |-> NoRet]
    /\ rng \in BootRngStates

NextSize == place_initial(0) \/ SkipPlaced(0) \/ NormalizeReturn(0)

SpecSize == InitSize /\ [][NextSize]_vars

(***************************************************************************)
(* Properties.                                                             *)
(***************************************************************************)
RoomIds(p) == {p.rooms[i].id : i \in 1..Len(p.rooms)}
NoDupKeys(d) == \A i, j \in 1..Len(d.keys) : d.keys[i] = d.keys[j] => i = j
PairwiseDisjoint(d) ==
    \A a, b \in Range(d.keys) : a # b => InterArea(d.at[a], d.at[b]) * MicroPerArea <= EpsMicro
Returned(r) == pc[r] \in {"placed", "called", "anneal", "snap", "done"}
Placing(r) == pc[r] = "place" \/ Returned(r)
Annealing(r) == pc[r] \in {"anneal", "snap"}
InitialCost(r) == cost_fn(args[r].initial_coords, PairsOf(r))

\* C1: for every plan with at least one room, the layout compact_snapping_layout
\* returns has exactly the plan's room ids as keys, one rect each, whatever the
\* adjacency graph (rooms that nothing connects to the root included).
PlacerComplete ==
    Returned(0) =>
        /\ Range(ret[0].coords_initial.keys) = RoomIds(plan)
        /\ NoDupKeys(ret[0].coords_initial)

\* C2: after every placement step of compact_snapping_layout (seed, anchor placement,
\* fallback placement), and in the returned layout, every two distinct placed rooms
\* intersect in an area of at most 1e-6.
PlacerNonOverlap ==
    Placing(0) => PairwiseDisjoint(gen[0].coords) /\ PairwiseDisjoint(ret[0].coords_initial)

\* C3: for every pairwise non-overlapping initial layout, pair list, seed and budget,
\* every two distinct rooms of the layout optimize_layout returns intersect in an area
\* of at most 1e-6.
OptimizerNonOverlap ==
    (pc[0] = "done" /\ PairwiseDisjoint(args[0].initial_coords))
        => PairwiseDisjoint(ret[0].coords_opt)

\* C4: two runs of the pipeline with the same plan, weights, budget and seed return
\* identical layouts, from the placer and from the optimizer.
Deterministic ==
    (/\ pc[0] = "done" /\ pc[1] = "done"
     /\ args[1].seed = args[0].seed /\ args[1].iterations = args[0].iterations)
        => ret[1] = ret[0]

\* both runs are done on the same seed and budget, and the optimizer moved a room
DeterministicWitness ==
    /\ pc[0] = "done" /\ pc[1] = "done"
    /\ args[1].seed = args[0].seed /\ args[1].iterations = args[0].iterations
    /\ args[0].iterations > 0
    /\ ret[0].coords_opt # ret[0].coords_initial

\* C5: two optimize_layout runs in two threads, steps interleaved in any order, each
\* return the layout the run returns alone on the same inputs and seed.
ThreadsIsolated ==
    \A r \in {1, 2} :
        (/\ pc[0] = "done" /\ pc[r] = "done"
         /\ args[r].seed = args[0].seed /\ args[r].iterations = args[0].iterations)
            => ret[r].coords_opt = ret[0].coords_opt

\* C6: every room's (width, height), in the placer's layout and in the optimizer's,
\* is the size _size_for resolves for it: placement, random moves, snap moves and
\* the normalizations change x and y only.
SizeKept(d) == \A k \in Range(d.keys) : <<d.at[k][3], d.at[k][4]>> = _size_for(RoomOf(plan, k))

SizePreserved ==
    /\ SizeKept(gen[0].coords) /\ SizeKept(ret[0].coords_initial)
    /\ SizeKept(opt[0].current) /\ SizeKept(opt[0].best) /\ SizeKept(ret[0].coords_opt)

\* the optimizer returned a layout in which a room has moved by a random or a snap move
SizePreservedWitness ==
    /\ pc[0] = "done"
    /\ opt[0].best_cost < InitialCost(0)
    /\ Len(ret[0].coords_opt.keys) >= 3

\* C7: during an optimize_layout run best_cost never increases: after any iteration
\* step (random step, snap of a room) it is at most what it was before.
BestCostStep ==
    \A r \in Runs : (Annealing(r) /\ opt'[r] # opt[r]) => opt'[r].best_cost <= opt[r].best_cost

BestCostMonotone == [][BestCostStep]_vars

\* best_cost has dropped below the initial layout's cost in a snap pass
BestCostMonotoneWitness ==
    /\ pc[0] = "snap"
    /\ opt[0].best_cost < InitialCost(0)
    /\ opt[0].current_cost > opt[0].best_cost

\* C8: for every non-empty initial layout, seed and budget N >= 0, optimize_layout
\* returns a layout whose cost is at most the initial layout's; when no move lowered
\* the best cost the result is the initial layout translated by the normalization
\* shift.  (No step of Optimizer has a failing branch: every guard of it is a position
\* of the run, and the run ends in "done" once the budget is spent.)
ShiftedBy(d, e, vx, vy) ==
    /\ e.keys = d.keys
    /\ \A k \in Range(d.keys) :
          e.at[k] = <<d.at[k][1] + vx, d.at[k][2] + vy, d.at[k][3], d.at[k][4]>>

\* the least x and the least y of a layout's rects (a rect spans x .. x+w, y .. y+h)
MinX(d) == SetMin({Min2(d.at[k][1], d.at[k][1] + d.at[k][3]) : k \in Range(d.keys)})
MinY(d) == SetMin({Min2(d.at[k][2], d.at[k][2] + d.at[k][4]) : k \in Range(d.keys)})

OptimizerNeverWorse ==
    pc[0] = "done" =>
        /\ ret[0].coords_opt.keys # <<>>
        /\ cost_fn(ret[0].coords_opt, PairsOf(0)) <= InitialCost(0)
        /\ opt[0].best_cost = InitialCost(0) =>
              ShiftedBy(args[0].initial_coords, ret[0].coords_opt,
                        Margin - MinX(args[0].initial_coords),
                        Margin - MinY(args[0].initial_coords))

\* a run of more than one snap period returned a layout cheaper than the initial one
OptimizerNeverWorseWitness ==
    /\ pc[0] = "done"
    /\ args[0].iterations > SnapEvery
    /\ opt[0].draws >= 3 * SnapEvery
    /\ cost_fn(ret[0].coords_opt, PairsOf(0)) < InitialCost(0)

\* C9: the final normalization translates every rect by one common vector, and in the
\* layout returned by compact_snapping_layout and in the one returned by
\* optimize_layout the minimum x and the minimum y over all rects equal the margin 0.2.
CommonShift(d, e) == \E k \in Range(d.keys) :
    ShiftedBy(d, e, e.at[k][1] - d.at[k][1], e.at[k][2] - d.at[k][2])

AtMargin(d) == MinX(d) = Margin /\ MinY(d) = Margin

NormalizedStep ==
    /\ (pc[0] = "place" /\ pc'[0] = "placed") =>
          /\ CommonShift(gen[0].coords, ret'[0].coords_initial)
          /\ AtMargin(ret'[0].coords_initial)
    /\ (pc[0] = "anneal" /\ pc'[0] = "done") =>
          /\ CommonShift(opt[0].best, ret'[0].coords_opt)
          /\ AtMargin(ret'[0].coords_opt)

NormalizeIdempotent ==
    /\ Returned(0) =>
          /\ NormalizeGen(ret[0].coords_initial) = ret[0].coords_initial
          /\ NormalizeOpt(ret[0].coords_initial) = ret[0].coords_initial
    /\ pc[0] = "done" =>
          /\ NormalizeOpt(ret[0].coords_opt) = ret[0].coords_opt
          /\ NormalizeGen(ret[0].coords_opt) = ret[0].coords_opt

\* both returned layouts are normalized, the optimizer's after a move
NormalizeIdempotentWitness ==
    /\ pc[0] = "done"
    /\ AtMargin(ret[0].coords_initial)
    /\ AtMargin(ret[0].coords_opt)
    /\ opt[0].best_cost < InitialCost(0)


\* C11: for a plan without doors the graph has one node per room id, and an edge
\* between r and rr exactly when rr is another room and a token of one's
\* preferred_adjacent is a case-insensitive substring of the other's type or id: every
\* match gets its edge, a token matching nothing adds none, and no room gets an edge to
\* itself.
HasEdge(g, u, v) == v \in Range(g.adj[u])
TokenLinks(r, rr) == \E t \in Range(Prefs(r)) : TokenMatches(t, rr)

GraphFromTokens ==
    (Placing(0) /\ plan.doors = <<>>) =>
        /\ Range(gen[0].G.nodes) = RoomIds(plan)
        /\ Len(gen[0].G.nodes) = Len(plan.rooms)
        /\ \A i, j \in 1..Len(plan.rooms) :
              HasEdge(gen[0].G, plan.rooms[i].id, plan.rooms[j].id)
                  <=> (i # j /\ (TokenLinks(plan.rooms[i], plan.rooms[j])
                                  \/ TokenLinks(plan.rooms[j], plan.rooms[i])))


\* C12: for every door record of the plan, given as a mapping with from_room/to_room
\* keys or as an object with from_room/to_room attributes, the graph has the edge
\* {from_room, to_room} when both ids are rooms of the plan; a door naming an id that is
\* not a room adds nothing (no node for it) and raises no error.
DoorEnds(d) ==
    IF d.isdict THEN <<d.keys["from_room"], d.keys["to_room"]>>
    ELSE <<d.attrs["from_room"], d.attrs["to_room"]>>

DoorsInGraph ==
    Placing(0) =>
        /\ Range(gen[0].G.nodes) = RoomIds(plan)
        /\ \A i \in 1..Len(plan.doors) :
              LET e == DoorEnds(plan.doors[i])
              IN  (e[1] \in RoomIds(plan) /\ e[2] \in RoomIds(plan))
                      => HasEdge(gen[0].G, e[1], e[2])


\* C13: _size_for resolves a room's size in this order: the explicit size when both
\* of its dimensions are present; otherwise the minimum-size hints when both are
\* present; otherwise the default-table entry of the room's type; otherwise (3.5, 3.0).
\* This holds for every combination of present and absent fields, an explicit size
\* with one dimension only included.
Present(o) == o # None

PriorityOrderSize(room) ==
    IF Present(room.size_m) /\ Present(room.size_m[1].width_m) /\ Present(room.size_m[1].height_m)
    THEN <<room.size_m[1].width_m[1], room.size_m[1].height_m[1]>>
    ELSE IF Present(room.min_width_m) /\ Present(room.min_height_m)
         THEN <<room.min_width_m[1], room.min_height_m[1]>>
         ELSE IF room.type \in DOMAIN DEFAULT_SIZES THEN DEFAULT_SIZES[room.type]
              ELSE <<70, 60>>

SizeInPriorityOrder ==
    Placing(0) =>
        \A k \in Range(gen[0].coords.keys) :
            <<gen[0].coords.at[k][3], gen[0].coords.at[k][4]>> = PriorityOrderSize(RoomOf(plan, k))


\* C14: whatever a room's explicit-size and minimum-size fields hold (absent, zero or
\* negative numbers), _size_for returns a width and a height that are both > 0, so
\* every rect of the placer and of the annealer has positive width and height.
PositiveRects(d) == \A k \in Range(d.keys) : d.at[k][3] > 0 /\ d.at[k][4] > 0

SizesPositive ==
    Placing(0) =>
        /\ \A i \in 1..Len(plan.rooms) :
              _size_for(plan.rooms[i])[1] > 0 /\ _size_for(plan.rooms[i])[2] > 0
        /\ PositiveRects(gen[0].coords) /\ PositiveRects(ret[0].coords_initial)
        /\ PositiveRects(opt[0].current) /\ PositiveRects(ret[0].coords_opt)


\* C15: a plan with zero rooms is rejected with an explicit InvalidPlan error, before
\* root selection, placement or a bounding box over zero rects is attempted: the run
\* on it ends in InvalidPlan and in no other way.
EmptyPlanRejected ==
    (plan.rooms = <<>> /\ pc[0] # "idle") => pc[0] = "InvalidPlan"


\* two rects touch: they share a boundary segment of positive length
Touches(a, b) ==
    \/ /\ (a[1] + a[3] = b[1] \/ b[1] + b[3] = a[1])
       /\ Min2(a[2] + a[4], b[2] + b[4]) > Max2(a[2], b[2])
    \/ /\ (a[2] + a[4] = b[2] \/ b[2] + b[4] = a[2])
       /\ Min2(a[1] + a[3], b[1] + b[3]) > Max2(a[1], b[1])

TwoRoomsNeverOverlap ==
    (plan = PlanTwo /\ pc[0] = "done") =>
        InterArea(ret[0].coords_opt.at[<<"a">>], ret[0].coords_opt.at[<<"b">>]) * MicroPerArea
            <= EpsMicro

\* the optimizer has returned the two-room layout after more than one snap period of
\* random moves
TwoRoomsNeverOverlapWitness ==
    /\ plan = PlanTwo
    /\ pc[0] = "done"
    /\ args[0].iterations > SnapEvery
    /\ opt[0].draws >= 3 * SnapEvery
    /\ Touches(ret[0].coords_opt.at[<<"a">>], ret[0].coords_opt.at[<<"b">>])


\* C18: the adjacency-pair list the annealer's cost sums over, built by
\* build_adjacency_pairs or inferred inside optimize_layout, is deduplicated: every
\* unordered pair of room ids occurs in it at most once.
PairListDeduplicated ==
    (Annealing(0) \/ pc[0] = "done") =>
        \A i, j \in 1..Len(PairsOf(0)) :
            i < j => {PairsOf(0)[i][1], PairsOf(0)[i][2]} # {PairsOf(0)[j][1], PairsOf(0)[j][2]}


\* C19: every room compact_snapping_layout places through an anchor (not through the
\* fallback) touches that anchor: the rect chosen, whatever its side and slide offset,
\* shares a boundary segment of positive length with the anchor's rect.
AnchorPlacedTouches ==
    [][PlaceAtAnchor(0) =>
          Touches(gen'[0].coords.at[LoopNode(0)], gen[0].coords.at[LoopAnchor(0)])]_vars


\* the anchors find_best_placement_for is called with for the loop's node: every anchor
\* up to the first that yields a placement
TriedAnchors(r) ==
    LET as == Anchors(gen[r].G, gen[r].coords, LoopNode(r))
    IN  {as[k] : k \in {k \in 1..Len(as) :
            \A j \in 1..(k - 1) :
                find_best_placement_for(plan, gen[r].coords, LoopNode(r), as[j]) = None}}

\* C20: in find_best_placement_for the number of slide positions tried for the right
\* and left candidates is max(1, floor(anchor_height / 0.5)), and for the top and bottom
\* candidates max(1, floor(anchor_width / 0.5)).
SlideCountFromSharedEdge ==
    (InPlaceLoop(0) /\ ~Has(gen[0].coords, LoopNode(0))) =>
        \A a \in TriedAnchors(0) : \A i \in 1..4 :
            LET aw == gen[0].coords.at[a][3]
                ah == gen[0].coords.at[a][4]
            IN  slide_steps(Sides[i], aw, ah) =
                    Max2(1, (IF Sides[i] \in {"right", "left"} THEN ah ELSE aw) \div SlideStep)


\* position of a rect along the axis a candidate of `side` slides on, and its extent
SlidePos(side, c) == IF side \in {"right", "left"} THEN c[2] ELSE c[1]
SlideLen(side, c) == IF side \in {"right", "left"} THEN c[4] ELSE c[3]

\* twice the distance of the candidate's centre from the anchor's centre on the slide axis
CentreOffset2(side, c, a) ==
    (2 * SlidePos(side, c) + SlideLen(side, c)) - (2 * SlidePos(side, a) + SlideLen(side, a))

\* C21: in find_best_placement_for, when only one slide step fits the candidate is
\* centred on the anchor along the slide axis; when several steps fit, the slide offsets
\* tried are symmetric around that centred position.
SlideCentredSymmetric ==
    (InPlaceLoop(0) /\ ~Has(gen[0].coords, LoopNode(0))) =>
        \A an \in TriedAnchors(0) : \A i \in 1..4 :
            LET a == gen[0].coords.at[an]
                wh == _size_for(RoomOf(plan, LoopNode(0)))
                n == slide_steps(Sides[i], a[3], a[4])
                offs == {CentreOffset2(Sides[i], CandidateAt(Sides[i], s, a, wh[1], wh[2]), a) :
                            s \in 0..(n - 1)}
            IN  IF n = 1 THEN offs = {0} ELSE \A o \in offs : (0 - o) \in offs


\* area of the bounding box of a set of rects
BoxArea(rs) ==
    LET xs == {r[1] : r \in rs} \cup {r[1] + r[3] : r \in rs}
        ys == {r[2] : r \in rs} \cup {r[2] + r[4] : r \in rs}
    IN  (SetMax(xs) - SetMin(xs)) * (SetMax(ys) - SetMin(ys))

\* the candidates of the loop's node at anchor an, and those that overlap no placed room
NodeCandidates(an) ==
    LET wh == _size_for(RoomOf(plan, LoopNode(0)))
    IN  AllCandidates(gen[0].coords.at[an], wh[1], wh[2])
FreeCandidates(an) ==
    {i \in 1..Len(NodeCandidates(an)) :
        \A s \in Values(gen[0].coords) :
            InterArea(NodeCandidates(an)[i], s) * MicroPerArea <= EpsMicro}
AreaWith(an, i) == BoxArea(Values(gen[0].coords) \cup {NodeCandidates(an)[i]})

\* C22: the position find_best_placement_for returns for a node and an anchor is, among
\* the candidates over the four sides and all slide offsets that overlap no placed room,
\* one of minimal bounding-box area of the placed rooms plus the node, and the first such
\* in encounter order; it returns no position only when every candidate overlaps.
BestPlacementMinimal ==
    (InPlaceLoop(0) /\ ~Has(gen[0].coords, LoopNode(0))) =>
        \A an \in TriedAnchors(0) :
            LET r == find_best_placement_for(plan, gen[0].coords, LoopNode(0), an)
            IN  IF FreeCandidates(an) = {} THEN r = None
                ELSE \E i \in FreeCandidates(an) :
                        /\ r = NodeCandidates(an)[i]
                        /\ \A k \in FreeCandidates(an) :
                               /\ AreaWith(an, i) <= AreaWith(an, k)
                               /\ k < i => AreaWith(an, k) > AreaWith(an, i)

\* a node is about to be placed after another room was placed at an anchor; at its first
\* anchor some candidates overlap a placed room and several free ones tie at the minimum
BestPlacementMinimalWitness ==
    /\ InPlaceLoop(0) /\ ~Has(gen[0].coords, LoopNode(0))
    /\ Len(gen[0].coords.keys) >= 2
    /\ \E an \in TriedAnchors(0) :
           /\ FreeCandidates(an) # {}
           /\ FreeCandidates(an) # 1..Len(NodeCandidates(an))
           /\ \E i, k \in FreeCandidates(an) :
                  /\ i < k
                  /\ AreaWith(an, i) = AreaWith(an, k)
                  /\ \A j \in FreeCandidates(an) : AreaWith(an, i) <= AreaWith(an, j)


\* the placed neighbours of the loop's node
PlacedNeighbours ==
    {n \in Range(gen[0].G.adj[LoopNode(0)]) : Has(gen[0].coords, n)}

\* C23: when no placed neighbour of a node yields a non-overlapping candidate the node is
\* put at x = (largest right edge of the placed rooms) + 0.5, y = 0, before
\* normalisation; otherwise it is placed at a candidate of an anchor that yields one, no
\* placed neighbour of higher degree yielding any: the fallback is used only when all
\* anchors fail.
FallbackOnlyWhenAnchorsFail ==
    [][(InPlaceLoop(0) /\ ~Has(gen[0].coords, LoopNode(0)) /\ Has(gen'[0].coords, LoopNode(0))) =>
          LET new == gen'[0].coords.at[LoopNode(0)]
              wh == _size_for(RoomOf(plan, LoopNode(0)))
              maxx == SetMax({c[1] + c[3] : c \in Values(gen[0].coords)})
          IN  IF \A n \in PlacedNeighbours : FreeCandidates(n) = {}
              THEN new = <<maxx + SlideStep, 0, wh[1], wh[2]>>
              ELSE \E u \in PlacedNeighbours :
                      /\ \E i \in FreeCandidates(u) : new = NodeCandidates(u)[i]
                      /\ \A n \in PlacedNeighbours :
                             degree(gen[0].G, n) > degree(gen[0].G, u) => FreeCandidates(n) = {}]_vars

\* the placer has returned the layout of the crowded hall: one room was placed by the
\* fallback, 0.5 m right of the rightmost edge of the others
FallbackOnlyWhenAnchorsFailWitness ==
    /\ plan = PlanCrowd
    /\ pc[0] = "placed"
    /\ \E k \in Range(ret[0].coords_initial.keys) :
           ret[0].coords_initial.at[k][1] =
               SetMax({ret[0].coords_initial.at[j][1] + ret[0].coords_initial.at[j][3] :
                          j \in Range(ret[0].coords_initial.keys) \ {k}}) + SlideStep


\* the rooms of the plan whose type contains "living", whatever the case, by index
LivingIdx == {i \in 1..Len(plan.rooms) : IsSubstring(sLiving, lower(plan.rooms[i].type))}
ResolvedArea(i) == _size_for(plan.rooms[i])[1] * _size_for(plan.rooms[i])[2]

\* the index the root must have: the first living room, else the first room of largest area
ExpectedRootIdx ==
    IF LivingIdx # {} THEN SetMin(LivingIdx)
    ELSE SetMin({i \in 1..Len(plan.rooms) :
                    \A j \in 1..Len(plan.rooms) : ResolvedArea(j) <= ResolvedArea(i)})

\* C24: the root is the first room in plan order whose type contains "living"
\* case-insensitively, else the first room of largest resolved area; it is the first
\* room placed and is seeded at (0, 0) with its resolved size.
RootChosenAndSeeded ==
    pc[0] = "place" =>
        /\ gen[0].root = plan.rooms[ExpectedRootIdx].id
        /\ gen[0].coords.keys[1] = gen[0].root
        /\ gen[0].coords.at[gen[0].root] =
               <<0, 0, _size_for(plan.rooms[ExpectedRootIdx])[1],
                 _size_for(plan.rooms[ExpectedRootIdx])[2]>>

\* the placer has seeded the root of a plan whose living room is neither the first room
\* nor the largest
RootChosenAndSeededWitness ==
    /\ plan = PlanLivings
    /\ pc[0] = "place"
    /\ gen[0].coords.keys = << <<"q">> >>
    /\ gen[0].coords.at[<<"q">>] = <<0, 0, 40, 40>>


\* the room the snap pass is at, and the layouts with it touching another room on the
\* left, right, top or bottom
SnapRid == opt[0].room_ids[opt[0].rid]
TouchingLayouts ==
    LET c == opt[0].current
        a == c.at[SnapRid]
    IN  {DictPut(c, SnapRid, <<p[1], p[2], a[3], a[4]>>) :
            p \in UNION {{<<c.at[n][1] - a[3], c.at[n][2]>>, <<c.at[n][1] + c.at[n][3], c.at[n][2]>>,
                          <<c.at[n][1], c.at[n][2] - a[4]>>, <<c.at[n][1], c.at[n][2] + c.at[n][4]>>} :
                             n \in Range(opt[0].room_ids) \ {SnapRid}}}

RECURSIVE RngAfter(_, _)
RngAfter(s, n) == IF n = 0 THEN s ELSE RngAfter(RngNext(s), n - 1)

\* an annealing iteration is about to draw its neighbour; the neighbour it will draw
\* costs less than the current layout
IterationStep == pc[0] = "anneal" /\ opt[0].it < args[0].iterations
NeighbourLowers ==
    cost_fn(_random_neighbor(opt[0].current, opt[0].room_ids, MaxShift,
                             RngOut(RngAfter(rng, 1)), RngOut(RngAfter(rng, 2)),
                             RngOut(RngAfter(rng, 3))), PairsOf(0))
        < opt[0].current_cost

\* C26 as stated: every annealing iteration consumes exactly three random draws, the
\* same number whether or not the candidate lowers the cost, and the snap pass none.
ThreeDrawsPerIteration ==
    [][/\ IterationStep => (rng' = RngAfter(rng, 3) /\ opt'[0].draws = opt[0].draws + 3)
       /\ pc[0] = "snap" => (rng' = rng /\ opt'[0].draws = opt[0].draws)]_vars

\* C26, amended: every annealing iteration consumes three random draws for the neighbour
\* (room choice and two axis offsets) and a fourth, for the Metropolis test, exactly when
\* the candidate does not lower the cost; the snap pass consumes none.
DrawsPerIteration ==
    [][/\ IterationStep =>
              LET n == IF NeighbourLowers THEN 3 ELSE 4
              IN  rng' = RngAfter(rng, n) /\ opt'[0].draws = opt[0].draws + n
       /\ pc[0] = "snap" => (rng' = rng /\ opt'[0].draws = opt[0].draws)]_vars

\* two iterations and a snap pass are over: one iteration drew three times, the other four
DrawsPerIterationWitness ==
    /\ pc[0] = "anneal"
    /\ opt[0].it = 2
    /\ opt[0].draws = 7


\* C27: between the steps of optimize_layout (after the random step and after each room
\* of a snap pass) the recorded costs are the costs of the recorded layouts and the best
\* is no worse than the current: best_cost = cost_fn(best) <= current_cost =
\* cost_fn(current); a snap move on current changes best only when best is updated to
\* the new current layout, of lower cost.
RecordedCostsConsistent ==
    /\ [](Annealing(0) =>
             /\ opt[0].best_cost = cost_fn(opt[0].best, PairsOf(0))
             /\ opt[0].current_cost = cost_fn(opt[0].current, PairsOf(0))
             /\ opt[0].best_cost <= opt[0].current_cost)
    /\ [][(pc[0] = "snap" /\ opt'[0].best # opt[0].best) =>
              (opt'[0].best = opt'[0].current /\ opt'[0].best_cost < opt[0].best_cost)]_vars

\* in a snap pass, after a random move that was accepted although it cost more: current
\* is costlier than best, and best is cheaper than the initial layout
RecordedCostsConsistentWitness ==
    /\ pc[0] = "snap"
    /\ opt[0].rid >= 2
    /\ opt[0].best_cost < opt[0].current_cost
    /\ opt[0].best_cost < InitialCost(0)
    /\ opt[0].best # opt[0].current

====
